---- MODULE Spec2Model ----
(***************************************************************************)
(* A model of packages/reactivity/src/effect.ts: the registry targetMap,   *)
(* the tracking context (activeEffect, shouldTrack), the ReactiveEffect    *)
(* objects and the operations track, trigger, run, stop, effect,           *)
(* pauseTracking and resetTracking.                                        *)
(*                                                                         *)
(* The engine is synchronous and re-entrant: a computation (fn), a         *)
(* scheduler or the top-level program may call any operation, and run()    *)
(* and triggerEffects() are suspended while the code they call executes.   *)
(* The JavaScript call stack is the variable stack; the code that is       *)
(* executing is the top frame (or the top-level program when the stack is  *)
(* empty) and it chooses its next call nondeterministically.               *)
(***************************************************************************)
EXTENDS Integers, Sequences, FiniteSets, TLC

\* ------------------------------------------------------------------ bounds
MaxNodes == 3
MaxLen == 2
MaxDepth == 4
MaxOps == 5
MaxOrderNodes == 2
MaxOrderOps == 6
MaxCascadeNodes == 2
MaxCascadeOps == 7
MaxKeyNodes == 2
MaxKeyOps == 5
MaxDirectNodes == 2
MaxDirectOps == 4

\* ------------------------------------------------------------- the inputs
Nodes == 1..MaxNodes
None == 0

Digit(d) == CASE d = 0 -> "0" [] d = 1 -> "1" [] d = 2 -> "2" [] d = 3 -> "3"
              [] d = 4 -> "4" [] d = 5 -> "5" [] d = 6 -> "6" [] d = 7 -> "7"
              [] d = 8 -> "8" [] OTHER -> "9"

RECURSIVE NumStr(_)
\* (i - 1) + '' : the decimal string of a number
NumStr(n) == IF n < 0 THEN "-" \o NumStr(-n)
             ELSE IF n < 10 THEN Digit(n)
             ELSE NumStr(n \div 10) \o Digit(n % 10)

ITERATE_KEY == "Symbol(iterate)"
IndexKeys == {NumStr(i) : i \in 0..(MaxLen - 1)}
TriggerOpTypes == {"add", "set", "delete", "clear"}

isArray(t) == t = "arr"
isObject(t) == t \in {"arr", "obj"}
isIntegerKey(k) == \E n \in 0..MaxLen : NumStr(n) = k

Call(t, ty, k, n, m) == [target |-> t, type |-> ty, key |-> k, newValue |-> n, oldValue |-> m]

\* the reads and writes of a program over one plain object
ObjSlots == {<<"obj", "a">>, <<"obj", ITERATE_KEY>>}
ObjCalls == {Call("obj", ty, "a", 0, 0) : ty \in {"set", "add"}}

\* the reads and writes of a program over an array of length MaxLen and an object
AllSlots == ObjSlots \cup {<<"arr", k>> : k \in IndexKeys \cup {"length", ITERATE_KEY}}
AllCalls ==
  {Call("obj", ty, "a", 0, 0) : ty \in TriggerOpTypes}
  \cup {Call("arr", "set", k, 0, 0) : k \in IndexKeys}
  \cup {Call("arr", "add", NumStr(MaxLen), 0, 0)}
  \cup {Call("arr", "set", "length", n, MaxLen) : n \in 0..(MaxLen + 1)}

\* ------------------------------------------------------------------ state
VARIABLES
  targetMap,     \* target -> key -> Dep; a Dep is a Set in insertion order
  activeEffect,  \* the current ReactiveEffect, or None
  shouldTrack,
  effects,       \* the ReactiveEffect objects created so far, by handle
  stack,         \* the call stack: frames of fn, scheduler and triggerEffects
  exc,           \* an exception is propagating up the stack
  onStopCalls,   \* how often each node's onStop callback has been called
  fnCalls,       \* how often each node's computation fn has been called
  reads,         \* slots track() recorded for a node since its latest run began
  pausedAt,      \* depth of the code that called pauseTracking(), -1 if none
  budget,        \* the calls and the nodes the program may still make
  last           \* the call the program made in the latest step, "" if none

vars == <<targetMap, activeEffect, shouldTrack, effects, stack, exc,
          onStopCalls, fnCalls, reads, pausedAt, budget, last>>

Range(s) == {s[i] : i \in 1..Len(s)}
Top == stack[Len(stack)]
Pop(s) == SubSeq(s, 1, Len(s) - 1)
Created == DOMAIN effects

\* Set.prototype.delete / add on an insertion-ordered Set
SetDelete(dep, e) == SelectSeq(dep, LAMBDA x : x # e)
SetAdd(dep, e) == IF e \in Range(dep) THEN dep ELSE Append(dep, e)

\* depsMap.get(key) of targetMap.get(target); <<>> stands for undefined
DepGet(tm, t, k) == IF t \in DOMAIN tm /\ k \in DOMAIN tm[t] THEN tm[t][k] ELSE <<>>

\* the mutable engine state, passed through the operations
World == [targetMap |-> targetMap, activeEffect |-> activeEffect,
          shouldTrack |-> shouldTrack, effects |-> effects,
          onStopCalls |-> onStopCalls, fnCalls |-> fnCalls, reads |-> reads]

Commit(w) == /\ targetMap' = w.targetMap
             /\ activeEffect' = w.activeEffect
             /\ shouldTrack' = w.shouldTrack
             /\ effects' = w.effects
             /\ onStopCalls' = w.onStopCalls
             /\ fnCalls' = w.fnCalls
             /\ reads' = w.reads

NewEffect(sched, comp) ==
  [active |-> TRUE, deps |-> <<>>, parent |-> None, computed |-> comp,
   deferStop |-> FALSE, onStop |-> FALSE, scheduler |-> sched]

\* A stack frame.  kind "fn" is a computation called by run() (act: the run
\* was of an active node, so the finally block of run() applies; prev: the
\* current node when run() was entered), kind "sched" is a scheduler, kind
\* "onStop" is an onStop callback called by stop() (fin: that stop() was
\* called by the finally block of run(); pending: an exception was leaving
\* run() when its finally block began), kind
\* "trig" is triggerEffects() with its array effects, the pass (1: computed,
\* 2: the others) and the index i of its loop.  A "trig" frame also records
\* the trigger() call it serves, the nodes that were inactive when it was
\* made, and the nodes it has called or skipped so far.  reentered marks a
\* computation during which another run of its own node began.
Frame(kind, node, act, call, effs) ==
  [kind |-> kind, node |-> node, act |-> act, prev |-> activeEffect,
   reentered |-> FALSE, fin |-> FALSE, pending |-> FALSE,
   call |-> call, effects |-> effs, pass |-> 1, i |-> 1,
   called |-> <<>>, skipped |-> {},
   stopped |-> IF kind = "trig"
               THEN {e \in DOMAIN effects : ~effects[e].active} ELSE {}]

\* a Set the program made itself (new Set()), kept beside the registry in
\* targetMap under a target of its own, which no track() or trigger() names
OwnSlot == <<"own", "set">>

\* the call recorded in a frame that serves no trigger() call
NoCall == Call("own", "none", "set", 0, 0)

\* the stack with the computation of a run of e called on top of s
PushFn(s, e) ==
  Append([j \in 1..Len(s) |->
            IF s[j].kind = "fn" /\ s[j].node = e
            THEN [s[j] EXCEPT !.reentered = TRUE] ELSE s[j]],
         Frame("fn", e, effects[e].active, NoCall, <<>>))

\* ------------------------------------------------------- the operations
\* cleanupEffect(effect)
cleanupEffect(w, e) ==
  [w EXCEPT
     !.targetMap = [t \in DOMAIN w.targetMap |->
                     [k \in DOMAIN w.targetMap[t] |->
                        IF <<t, k>> \in Range(w.effects[e].deps)
                        THEN SetDelete(w.targetMap[t][k], e)
                        ELSE w.targetMap[t][k]]],
     !.effects[e].deps = <<>>]

\* ReactiveEffect.stop(): whether it calls the onStop callback
callsOnStop(w, e) == w.activeEffect # e /\ w.effects[e].onStop

\* ReactiveEffect.stop(), from its callback's return (if it has one) to its end
stopEnd(w, e) == [w EXCEPT !.effects[e].active = FALSE]

\* ReactiveEffect.stop(), from its entry to the call of the onStop callback,
\* or to its end when it calls none
stop(w, e) ==
  IF w.activeEffect = e
  THEN [w EXCEPT !.effects[e].deferStop = TRUE]
  ELSE LET c == cleanupEffect(w, e)
       IN IF callsOnStop(w, e)
          THEN [c EXCEPT !.onStopCalls[e] = @ + 1]
          ELSE stopEnd(c, e)

\* run() that keeps the subscriptions of the earlier run
runBeginNoCleanup(w, e) ==
  IF ~w.effects[e].active THEN [w EXCEPT !.fnCalls[e] = @ + 1]
  ELSE [w EXCEPT !.effects[e].parent = w.activeEffect,
                 !.activeEffect = e,
                 !.shouldTrack = TRUE,
                 !.fnCalls[e] = @ + 1,
                 !.reads[e] = {}]

\* ReactiveEffect.run(), from its entry to the call of this.fn()
runBegin(w, e) ==
  IF ~w.effects[e].active THEN [w EXCEPT !.fnCalls[e] = @ + 1]
  ELSE LET b == [w EXCEPT !.effects[e].parent = w.activeEffect,
                          !.activeEffect = e,
                          !.shouldTrack = TRUE,
                          !.fnCalls[e] = @ + 1,
                          !.reads[e] = {}]
       IN cleanupEffect(b, e)

\* ReactiveEffect.run(), its finally block: the current node and the parent
\* link are restored
restored(w, e) == [w EXCEPT !.activeEffect = w.effects[e].parent,
                            !.effects[e].parent = None]

\* ReactiveEffect.run(), its finally block: whether it calls the onStop
\* callback (through this.stop())
finallyCallsOnStop(w, e) ==
  restored(w, e).effects[e].deferStop /\ callsOnStop(restored(w, e), e)

\* ReactiveEffect.run(), its finally block, from the callback's return to its end
runFinallyEnd(w, e) == [stopEnd(w, e) EXCEPT !.effects[e].deferStop = FALSE]

\* ReactiveEffect.run(), its finally block, to the call of the onStop
\* callback, or to its end when it calls none
runFinally(w, e) ==
  LET r == restored(w, e)
  IN IF r.effects[e].deferStop
     THEN IF callsOnStop(r, e)
          THEN stop(r, e)
          ELSE [stop(r, e) EXCEPT !.effects[e].deferStop = FALSE]
     ELSE r

\* trackEffects() that does not record the dep in the node's deps list
trackEffectsNoPush(w, t, k) ==
  IF w.activeEffect # None
  THEN LET a == w.activeEffect
       IN [w EXCEPT !.targetMap[t][k] = SetAdd(@, a),
                    !.reads[a] = @ \cup {<<t, k>>}]
  ELSE w

\* trackEffects(dep), for the dep of (t, k)
trackEffects(w, t, k) ==
  IF w.activeEffect # None
  THEN LET a == w.activeEffect
       IN [w EXCEPT !.targetMap[t][k] = SetAdd(@, a),
                    !.effects[a].deps = Append(@, <<t, k>>),
                    !.reads[a] = @ \cup {<<t, k>>}]
  ELSE w

\* track(): the registry with the map of t and the Dep of (t, k) in it
ensureDep(tm, t, k) ==
  LET m1 == IF t \in DOMAIN tm THEN tm
            ELSE [x \in DOMAIN tm \cup {t} |-> IF x = t THEN <<>> ELSE tm[x]]
  IN IF k \in DOMAIN m1[t] THEN m1
     ELSE [m1 EXCEPT ![t] = [y \in DOMAIN m1[t] \cup {k} |->
                               IF y = k THEN <<>> ELSE m1[t][y]]]

\* track() without its guard
trackUnguarded(w, t, k) ==
  trackEffects([w EXCEPT !.targetMap = ensureDep(w.targetMap, t, k)], t, k)

\* track(target, key)
track(w, t, k) ==
  IF w.shouldTrack /\ w.activeEffect # None
  THEN trackEffects([w EXCEPT !.targetMap = ensureDep(w.targetMap, t, k)], t, k)
  ELSE w

\* trigger() that takes the iteration set for every kind of write
affectedDepsAnyType(tm, c) ==
  <<DepGet(tm, c.target, c.key)>>
  \o (IF isArray(c.target) /\ c.key = "length" /\ c.newValue < c.oldValue
      THEN [j \in 1..(c.oldValue - c.newValue) |->
              DepGet(tm, c.target, NumStr((c.newValue + j - 1) - 1))]
      ELSE <<>>)
  \o (IF isArray(c.target) /\ isIntegerKey(c.key)
      THEN <<DepGet(tm, c.target, "length")>>
      ELSE <<DepGet(tm, c.target, ITERATE_KEY)>>)

\* trigger() whose addition takes the iteration set for every target and key
affectedDepsNoIndexCase(tm, c) ==
  <<DepGet(tm, c.target, c.key)>>
  \o (IF isArray(c.target) /\ c.key = "length" /\ c.newValue < c.oldValue
      THEN [j \in 1..(c.oldValue - c.newValue) |->
              DepGet(tm, c.target, NumStr((c.newValue + j - 1) - 1))]
      ELSE <<>>)
  \o (IF c.type = "add" /\ isObject(c.target)
      THEN <<DepGet(tm, c.target, ITERATE_KEY)>>
      ELSE <<>>)

\* trigger(): the list deps of the Dependency Sets the write affects
affectedDeps(tm, c) ==
  <<DepGet(tm, c.target, c.key)>>
  \o (IF isArray(c.target) /\ c.key = "length" /\ c.newValue < c.oldValue
      THEN [j \in 1..(c.oldValue - c.newValue) |->
              DepGet(tm, c.target, NumStr((c.newValue + j - 1) - 1))]
      ELSE <<>>)
  \o (IF c.type = "add"
      THEN IF isArray(c.target) /\ isIntegerKey(c.key)
           THEN <<DepGet(tm, c.target, "length")>>
           ELSE IF isObject(c.target)
                THEN <<DepGet(tm, c.target, ITERATE_KEY)>>
                ELSE <<>>
      ELSE <<>>)

\* a union that keeps a node once per Dependency Set holding it
addAllKeep(dep, more) == dep \o more

RECURSIVE addAll(_, _)
\* _dep.forEach(v => dep.add(v))
addAll(dep, more) ==
  IF more = <<>> THEN dep ELSE addAll(SetAdd(dep, Head(more)), Tail(more))

RECURSIVE unionDeps(_, _)
\* trigger(): the de-duplicated Set built from the list deps
unionDeps(dep, ds) ==
  IF ds = <<>> THEN dep ELSE unionDeps(addAll(dep, Head(ds)), Tail(ds))

\* triggerEffects() looping over the Dependency Sets as they are now
effectsArrayLive(w, f) == unionDeps(<<>>, affectedDeps(w.targetMap, f.call))

\* triggerEffects(): const effects = [...dep], fixed when the pass starts
effectsArray(w, f) == f.effects

\* triggerEffects() as one loop over the array
inPassOneLoop(w, f) == f.pass = 1

\* triggerEffects(): whether effects[i] is notified in this pass
inPass(w, f) ==
  IF f.pass = 1 THEN w.effects[effectsArray(w, f)[f.i]].computed
  ELSE ~w.effects[effectsArray(w, f)[f.i]].computed

\* triggerEffect() without its guard
mayTriggerAlways(w, e) == TRUE

\* triggerEffect(): the guard against notifying the running effect
mayTrigger(w, e) == w.activeEffect # e

\* triggerEffect() that ignores the scheduler
hasSchedulerNever(w, e) == FALSE

\* triggerEffect(): if (effect.scheduler)
hasScheduler(w, e) == w.effects[e].scheduler

\* ------------------------------------------------------------- the actions
UserCode == /\ ~exc
            /\ IF stack = <<>> THEN TRUE ELSE Top.kind \in {"fn", "sched", "onStop"}

Op == /\ UserCode
      /\ budget.ops > 0
      /\ budget' = [budget EXCEPT !.ops = @ - 1]

\* a call of effect.run(): runs to the call of fn, which then executes
Enter(e) ==
  /\ Len(stack) < MaxDepth
  /\ Commit(runBegin(World, e))
  /\ stack' = PushFn(stack, e)

\* the module as loaded: no registry entry, no node, tracking enabled
Start(b) ==
  /\ targetMap = <<>>
  /\ activeEffect = None
  /\ shouldTrack = TRUE
  /\ effects = <<>>
  /\ stack = <<>>
  /\ exc = FALSE
  /\ onStopCalls = [e \in Nodes |-> 0]
  /\ fnCalls = [e \in Nodes |-> 0]
  /\ reads = [e \in Nodes |-> {}]
  /\ pausedAt = -1
  /\ budget = b
  /\ last = ""

\* programs of at most MaxOps calls over one object
Init == Start([ops |-> MaxOps, nodes |-> MaxNodes])

\* effect() that ignores options.lazy
runsAtOnceAlways(lazy) == TRUE

\* effect(): if (!options || !options.lazy)
runsAtOnce(lazy) == ~lazy

\* effect(fn, options) for a plain function fn: a new node
Effect(lazy, sched) ==
  /\ Op
  /\ Len(effects) < budget.nodes
  /\ LET e == Len(effects) + 1
         w == [World EXCEPT !.effects = Append(effects, NewEffect(sched, FALSE))]
     IN IF ~runsAtOnce(lazy)
        THEN Commit(w) /\ stack' = stack
        ELSE /\ Len(stack) < MaxDepth
             /\ Commit(runBegin(w, e))
             /\ stack' = Append(stack, Frame("fn", e, TRUE, NoCall, <<>>))
  /\ UNCHANGED <<exc, pausedAt>>
  /\ last' = (IF lazy THEN "lazy effect" ELSE "effect")

\* effect(runner, options) for the runner of node e: fn.effect is reused
EffectOf(e, lazy) ==
  /\ Op
  /\ e \in Created
  /\ IF ~runsAtOnce(lazy)
     THEN UNCHANGED <<targetMap, activeEffect, shouldTrack, effects, stack,
                      onStopCalls, fnCalls, reads>>
     ELSE Enter(e)
  /\ UNCHANGED <<exc, pausedAt>>
  /\ last' = (IF runsAtOnce(lazy) THEN "run" ELSE "")

\* new ReactiveEffect(fn, scheduler) with effect.computed set by its owner
NewComputed(sched) ==
  /\ Op
  /\ Len(effects) < budget.nodes
  /\ effects' = Append(effects, NewEffect(sched, TRUE))
  /\ UNCHANGED <<targetMap, activeEffect, shouldTrack, stack, exc,
                 onStopCalls, fnCalls, reads, pausedAt>>
  /\ last' = ""

\* effect.onStop = callback
SetOnStop(e) ==
  /\ Op
  /\ e \in Created
  /\ ~effects[e].onStop
  /\ effects' = [effects EXCEPT ![e].onStop = TRUE]
  /\ UNCHANGED <<targetMap, activeEffect, shouldTrack, stack, exc,
                 onStopCalls, fnCalls, reads, pausedAt>>
  /\ last' = ""

\* runner() / effect.run()
Run(e) ==
  /\ Op
  /\ e \in Created
  /\ Enter(e)
  /\ UNCHANGED <<exc, pausedAt>>
  /\ last' = "run"

\* the frame of the onStop callback of node e
OnStopFrame(e, fin, pending) ==
  [Frame("onStop", e, FALSE, NoCall, <<>>) EXCEPT !.fin = fin, !.pending = pending]

\* stop(runner) / effect.stop(), to the call of the onStop callback or to its end
Stop(e) ==
  /\ Op
  /\ e \in Created
  /\ Commit(stop(World, e))
  /\ IF callsOnStop(World, e)
     THEN /\ Len(stack) < MaxDepth
          /\ stack' = Append(stack, OnStopFrame(e, FALSE, FALSE))
     ELSE stack' = stack
  /\ UNCHANGED <<exc, pausedAt>>
  /\ last' = "stop"

\* track(target, key)
Track(t, k) ==
  /\ Op
  /\ Commit(track(World, t, k))
  /\ UNCHANGED <<stack, exc, pausedAt>>
  /\ last' = "track"

\* trigger(target, type, key, newValue, oldValue), to the call of triggerEffects
Trigger(c) ==
  /\ Op
  /\ IF c.target \notin DOMAIN targetMap
     THEN stack' = stack
     ELSE /\ Len(stack) < MaxDepth
          /\ stack' = Append(stack,
               Frame("trig", None, FALSE, c, unionDeps(<<>>, affectedDeps(targetMap, c))))
  /\ UNCHANGED <<targetMap, activeEffect, shouldTrack, effects, exc,
                 onStopCalls, fnCalls, reads, pausedAt>>
  /\ last' = "trigger"

\* the Dependency Sets the program can hold: those of the registry (a node's
\* deps list gives them out) and the Set it made itself
HeldDeps ==
  {OwnSlot} \cup {s \in AllSlots : s[1] \in DOMAIN targetMap /\ s[2] \in DOMAIN targetMap[s[1]]}

\* the Sets of nodes the program can make: new Set([...])
NodeSets ==
  {s \in UNION {[1..n -> Created] : n \in 0..Len(effects)} :
     \A a, b \in DOMAIN s : s[a] = s[b] => a = b}

\* trackEffects(dep), called by the program with a Set it holds
TrackEffects(t, k) ==
  /\ Op
  /\ <<t, k>> \in HeldDeps
  /\ Commit(trackEffects([World EXCEPT !.targetMap = ensureDep(targetMap, t, k)], t, k))
  /\ UNCHANGED <<stack, exc, pausedAt>>
  /\ last' = "trackEffects"

\* triggerEffects(dep), called by the program with a Set of nodes
TriggerEffects(dep) ==
  /\ Op
  /\ Len(stack) < MaxDepth
  /\ stack' = Append(stack, Frame("trig", None, FALSE, NoCall, dep))
  /\ UNCHANGED <<targetMap, activeEffect, shouldTrack, effects, exc,
                 onStopCalls, fnCalls, reads, pausedAt>>
  /\ last' = "triggerEffects"

\* triggerEffect(effect), called by the program
TriggerEffect(e) ==
  /\ Op
  /\ e \in Created
  /\ IF ~mayTrigger(World, e)
     THEN UNCHANGED <<targetMap, activeEffect, shouldTrack, effects, stack,
                      onStopCalls, fnCalls, reads>>
     ELSE IF hasScheduler(World, e)
     THEN /\ Len(stack) < MaxDepth
          /\ stack' = Append(stack, Frame("sched", e, FALSE, NoCall, <<>>))
          /\ UNCHANGED <<targetMap, activeEffect, shouldTrack, effects,
                         onStopCalls, fnCalls, reads>>
     ELSE Enter(e)
  /\ UNCHANGED <<exc, pausedAt>>
  /\ last' = "triggerEffect"

\* pauseTracking()
PauseTracking ==
  /\ Op
  /\ shouldTrack' = FALSE
  /\ pausedAt' = Len(stack)
  /\ UNCHANGED <<targetMap, activeEffect, effects, stack, exc, onStopCalls, fnCalls, reads>>
  /\ last' = ""

\* resetTracking()
ResetTracking ==
  /\ Op
  /\ shouldTrack' = TRUE
  /\ pausedAt' = -1
  /\ UNCHANGED <<targetMap, activeEffect, effects, stack, exc, onStopCalls, fnCalls, reads>>
  /\ last' = ""

\* the code that paused has returned: its region is over
Left(s) == IF pausedAt >= Len(s) + 1 THEN -1 ELSE pausedAt

\* triggerEffects(): one iteration of its loops, calling triggerEffect
TriggerStep ==
  /\ ~exc
  /\ stack # <<>>
  /\ Top.kind = "trig"
  /\ LET f == Top
         n == Len(stack)
     IN IF f.i > Len(effectsArray(World, f))
        THEN /\ IF f.pass = 1
                THEN stack' = [stack EXCEPT ![n].pass = 2, ![n].i = 1]
                ELSE stack' = Pop(stack)
             /\ UNCHANGED <<targetMap, activeEffect, shouldTrack, effects,
                            onStopCalls, fnCalls, reads>>
        ELSE LET e == effectsArray(World, f)[f.i]
             IN IF ~inPass(World, f)
                THEN /\ stack' = [stack EXCEPT ![n].i = f.i + 1]
                     /\ UNCHANGED <<targetMap, activeEffect, shouldTrack, effects,
                                    onStopCalls, fnCalls, reads>>
                ELSE IF ~mayTrigger(World, e)
                THEN /\ stack' = [stack EXCEPT ![n].i = f.i + 1,
                                               ![n].skipped = @ \cup {e}]
                     /\ UNCHANGED <<targetMap, activeEffect, shouldTrack, effects,
                                    onStopCalls, fnCalls, reads>>
                ELSE IF hasScheduler(World, e)
                THEN /\ Len(stack) < MaxDepth
                     /\ stack' = Append(
                          [stack EXCEPT ![n].i = f.i + 1,
                                        ![n].called = Append(@, <<e, "scheduler">>)],
                          Frame("sched", e, FALSE, NoCall, <<>>))
                     /\ UNCHANGED <<targetMap, activeEffect, shouldTrack, effects,
                                    onStopCalls, fnCalls, reads>>
                ELSE /\ Len(stack) < MaxDepth
                     /\ Commit(runBegin(World, e))
                     /\ stack' = PushFn(
                          [stack EXCEPT ![n].i = f.i + 1,
                                        ![n].called = Append(@, <<e, "run">>)], e)
  /\ UNCHANGED <<exc, pausedAt, budget>>
  /\ last' = ""

\* the top frame is the computation of a tracked run
InRun == Top.kind = "fn" /\ Top.act

\* fn, the scheduler or the onStop callback returns: run() goes through its
\* finally block, stop() sets active = false after its callback
Return ==
  /\ UserCode
  /\ stack # <<>>
  /\ IF InRun
     THEN /\ Commit(runFinally(World, Top.node))
          /\ stack' = IF finallyCallsOnStop(World, Top.node)
                       THEN Append(Pop(stack), OnStopFrame(Top.node, TRUE, FALSE))
                       ELSE Pop(stack)
          /\ exc' = exc
     ELSE IF Top.kind = "onStop"
     THEN /\ Commit(IF Top.fin THEN runFinallyEnd(World, Top.node)
                                ELSE stopEnd(World, Top.node))
          /\ stack' = Pop(stack)
          /\ exc' = (Top.pending /\ Len(stack) > 1)
     ELSE /\ UNCHANGED <<targetMap, activeEffect, shouldTrack, effects,
                         onStopCalls, fnCalls, reads>>
          /\ stack' = Pop(stack)
          /\ exc' = exc
  /\ pausedAt' = Left(Pop(stack))
  /\ UNCHANGED budget
  /\ last' = ""

\* fn, the scheduler or the onStop callback throws
Throw ==
  /\ Op
  /\ stack # <<>>
  /\ exc' = TRUE
  /\ UNCHANGED <<targetMap, activeEffect, shouldTrack, effects, stack,
                 onStopCalls, fnCalls, reads, pausedAt>>
  /\ last' = ""

\* the code of the top frame catches the exception (try ... catch) and goes on
Catch ==
  /\ exc
  /\ stack # <<>>
  /\ Top.kind \in {"fn", "sched", "onStop"}
  /\ exc' = FALSE
  /\ UNCHANGED <<targetMap, activeEffect, shouldTrack, effects, stack,
                 onStopCalls, fnCalls, reads, pausedAt, budget>>
  /\ last' = ""

\* the exception leaves the top frame: run() goes through its finally
\* block, an exception leaving the onStop callback leaves stop() before
\* active = false; the program catches what reaches the top level
Unwind ==
  /\ exc
  /\ stack # <<>>
  /\ IF InRun
     THEN /\ Commit(runFinally(World, Top.node))
          /\ IF finallyCallsOnStop(World, Top.node)
             THEN /\ stack' = Append(Pop(stack), OnStopFrame(Top.node, TRUE, TRUE))
                  /\ exc' = FALSE
             ELSE /\ stack' = Pop(stack)
                  /\ exc' = (Len(stack) > 1)
     ELSE /\ UNCHANGED <<targetMap, activeEffect, shouldTrack, effects,
                         onStopCalls, fnCalls, reads>>
          /\ stack' = Pop(stack)
          /\ exc' = (Len(stack) > 1)
  /\ pausedAt' = Left(Pop(stack))
  /\ UNCHANGED budget
  /\ last' = ""

\* what the running code (or the program) does next, or a frame proceeds
Step(slots, calls) ==
  \/ \E s \in slots : Track(s[1], s[2])
  \/ \E c \in calls : Trigger(c)
  \/ \E e \in Nodes : Run(e)
  \/ TriggerStep
  \/ Return

Next ==
  \/ Step(ObjSlots, ObjCalls)
  \/ \E lazy \in BOOLEAN, sched \in BOOLEAN : Effect(lazy, sched)
  \/ \E e \in Nodes, lazy \in BOOLEAN : EffectOf(e, lazy)
  \/ \E e \in Nodes : SetOnStop(e)
  \/ \E e \in Nodes : Stop(e)
  \/ PauseTracking
  \/ ResetTracking
  \/ Throw
  \/ Catch
  \/ Unwind

Spec == Init /\ [][Next]_vars

\* programs that also call the exported trackEffects(), triggerEffects() and
\* triggerEffect() themselves
InitDirect == Start([ops |-> MaxDirectOps, nodes |-> MaxDirectNodes])

NextDirect ==
  \/ Step(ObjSlots, ObjCalls)
  \/ \E lazy \in BOOLEAN, sched \in BOOLEAN : Effect(lazy, sched)
  \/ \E e \in Nodes : Stop(e)
  \/ \E s \in AllSlots \cup {OwnSlot} : TrackEffects(s[1], s[2])
  \/ \E dep \in NodeSets : TriggerEffects(dep)
  \/ \E e \in Nodes : TriggerEffect(e)

SpecDirect == InitDirect /\ [][NextDirect]_vars

\* programs that register plain and derived nodes, which read and write
\* one object
InitOrder == Start([ops |-> MaxOrderOps, nodes |-> MaxOrderNodes])

NextOrder ==
  \/ Step(ObjSlots, ObjCalls)
  \/ \E sched \in BOOLEAN : Effect(FALSE, sched)
  \/ \E sched \in BOOLEAN : NewComputed(sched)

SpecOrder == InitOrder /\ [][NextOrder]_vars

\* programs in which plain and derived nodes read one slot and write it,
\* from their computations and schedulers too
WrittenSlot == {<<"obj", "a">>}

WriteCalls == {Call("obj", "set", "a", 0, 0)}

InitCascade == Start([ops |-> MaxCascadeOps, nodes |-> MaxCascadeNodes])

NextCascade ==
  \/ Step(WrittenSlot, WriteCalls)
  \/ \E sched \in BOOLEAN : Effect(FALSE, sched)
  \/ \E sched \in BOOLEAN : NewComputed(sched)

SpecCascade == InitCascade /\ [][NextCascade]_vars

\* programs that register nodes, which read and write an array and an object
InitKeys == Start([ops |-> MaxKeyOps, nodes |-> MaxKeyNodes])

NextKeys ==
  \/ Step(AllSlots, AllCalls)
  \/ \E sched \in BOOLEAN : Effect(FALSE, sched)

SpecKeys == InitKeys /\ [][NextKeys]_vars

\* ------------------------------------------------------------ the claims
\* the slots whose Dependency Set contains node e
Subscribed(e) ==
  {s \in AllSlots \cup {OwnSlot} : e \in Range(DepGet(targetMap, s[1], s[2]))}

\* the triggerEffects() calls in progress
PassFrames == {i \in 1..Len(stack) : stack[i].kind = "trig"}

\* those made by trigger()
TrigFrames == {i \in PassFrames : stack[i].call # NoCall}

\* triggerEffects() has just been called and has notified nobody yet
Fresh(f) == f.kind = "trig" /\ f.pass = 1 /\ f.i = 1

\* triggerEffects() has finished both loops
Finished(f) == f.kind = "trig" /\ f.pass = 2 /\ f.i > Len(f.effects)

CalledNodes(f) == {f.called[j][1] : j \in 1..Len(f.called)}

\* this step is triggerEffects() calling node e (its scheduler or run())
PassCalls(e) ==
  /\ stack # <<>>
  /\ Top.kind = "trig"
  /\ Len(stack') = Len(stack) + 1
  /\ stack'[Len(stack')].node = e

\* this step is triggerEffect() calling node e, for triggerEffects() or for
\* the program
Notifies(e) ==
  \/ PassCalls(e)
  \/ /\ last' = "triggerEffect"
     /\ Len(stack') = Len(stack) + 1
     /\ stack'[Len(stack')].node = e

\* C1: a trigger() made after a node was stopped (stop() ran while the node
\* was not the current node) never calls that node's computation or scheduler.
C1_StoppedNotNotified ==
  \A i \in TrigFrames : CalledNodes(stack[i]) \cap stack[i].stopped = {}

\* C2: over a node's whole life its on-stop callback is called at most once.
C2_OnStopOnce ==
  \A e \in Nodes : onStopCalls[e] <= 1

\* C3: a trigger() of 'length' on the array with new length n below the old
\* length m notifies the subscribers of 'length' and of the indices n..m-1.
C3_Truncation ==
  (stack # <<>> /\ Fresh(Top) /\ isArray(Top.call.target) /\ Top.call.key = "length"
     /\ Top.call.newValue < Top.call.oldValue)
  => Range(Top.effects) =
       UNION {Range(DepGet(targetMap, "arr", k)) :
                k \in {"length"} \cup {NumStr(i) : i \in Top.call.newValue..(Top.call.oldValue - 1)}}

\* C4: while a node is current, a track() made by the code that called
\* pauseTracking(), before resetTracking(), adds nothing to any Dependency
\* Set or deps list.
C4_PausedTrackAddsNothing ==
  [][(pausedAt = Len(stack) /\ activeEffect # None
        /\ \E s \in AllSlots : Track(s[1], s[2]))
     => (targetMap' = targetMap /\ effects' = effects)]_vars

\* the stop() of node e has never reached its cleanup: such a stop() either
\* leaves the node inactive or calls its onStop callback
NeverCleanedByStop(e) == effects[e].active /\ onStopCalls[e] = 0

\* C5: a node is subscribed to no slot but those track() recorded for it
\* since its latest run began, because a run drops every earlier
\* subscription; a node that no stop() has cleaned up is subscribed to
\* exactly those slots.
C5_BranchPruning ==
  \A e \in Created :
    /\ Subscribed(e) \subseteq reads[e]
    /\ NeverCleanedByStop(e) => Subscribed(e) = reads[e]

\* node 1 ran reading (obj, a), ran again reading only the iteration slot,
\* and is now subscribed to the latter alone
C5_Witness ==
  /\ Len(stack) = 1
  /\ Finished(Top)
  /\ Top.call = Call("obj", "set", "a", 0, 0)
  /\ Top.called = <<<<1, "run">>>>
  /\ NeverCleanedByStop(1)
  /\ targetMap["obj"]["a"] = <<>>
  /\ Subscribed(1) = {<<"obj", ITERATE_KEY>>}

\* C6: whenever the computation of a tracked run is the code executing (the
\* computations it called have completed; none of them was a run of its own
\* node), its node is the current node, so its reads subscribe it.
C6_NestingRestored ==
  (stack # <<>> /\ ~exc /\ Top.kind = "fn" /\ Top.act /\ ~Top.reentered)
  => activeEffect = Top.node

\* C7: in one notification pass every derived node is called before every
\* plain node, whatever the order of the snapshot, and also in a pass begun
\* by a trigger() that the notification of a derived node has made.
C7_DerivedFirst ==
  \A i \in PassFrames :
    \A a, b \in 1..Len(stack[i].called) :
      (a < b /\ effects[stack[i].called[b][1]].computed)
        => effects[stack[i].called[a][1]].computed

\* a trigger() affects a plain node and, after it in the snapshot, a derived
\* node; its pass has called the derived node first, whose scheduler has made
\* a further trigger(); the pass of that trigger() affects the same two
\* nodes and has called the derived node and then the plain one, while the
\* first pass has yet to call the plain node
C7_Witness ==
  \E i \in TrigFrames :
    /\ i + 2 \in TrigFrames
    /\ Len(stack[i].effects) = 2
    /\ ~effects[stack[i].effects[1]].computed
    /\ effects[stack[i].effects[2]].computed
    /\ stack[i].called = <<<<stack[i].effects[2], "scheduler">>>>
    /\ stack[i + 1].kind = "sched"
    /\ stack[i + 1].node = stack[i].effects[2]
    /\ stack[i + 2].effects = stack[i].effects
    /\ stack[i + 2].called =
         <<<<stack[i].effects[2], "scheduler">>, <<stack[i].effects[1], "run">>>>

\* C8: triggerEffect() never calls the node that is the current node.
C8_SelfWriteGuard ==
  [][\A e \in Nodes : Notifies(e) => activeEffect # e]_vars

\* a computation has tracked a slot and triggered it, and the pass has
\* skipped the computation's own node
C8_Witness ==
  /\ Len(stack) >= 2
  /\ Top.kind = "trig"
  /\ stack[Len(stack) - 1].kind = "fn"
  /\ stack[Len(stack) - 1].node = activeEffect
  /\ activeEffect \in Top.skipped
  /\ <<Top.call.target, Top.call.key>> \in reads[activeEffect]

\* the write has no structural fan-out: no addition, no truncation
NoFanOut(c) ==
  /\ c.type # "add"
  /\ ~(isArray(c.target) /\ c.key = "length" /\ c.newValue < c.oldValue)

\* C9: a trigger() without fan-out takes exactly the nodes that tracked the
\* written slot since their latest run began, and a pass that finishes has
\* run each such node without scheduler exactly once, unless it is the
\* current node.
C9_ExactKey ==
  \A i \in TrigFrames :
    LET f == stack[i]
        slot == <<f.call.target, f.call.key>>
    IN NoFanOut(f.call) =>
         /\ (i = Len(stack) /\ Fresh(f)) =>
               \A e \in Created :
                 /\ e \in Range(f.effects) => slot \in reads[e]
                 /\ (NeverCleanedByStop(e) /\ slot \in reads[e]) => e \in Range(f.effects)
         /\ \A e \in Range(f.effects) :
               /\ Cardinality({j \in 1..Len(f.called) : f.called[j][1] = e}) <= 1
               /\ Finished(f) => (e \in CalledNodes(f) \/ e \in f.skipped)
               /\ ~effects[e].scheduler => <<e, "scheduler">> \notin Range(f.called)

\* a node without scheduler tracked (obj, a) only; a set of (obj, a) has run
\* it once and the pass is finished
C9_Witness ==
  \E i \in TrigFrames :
    /\ Finished(stack[i])
    /\ stack[i].call = Call("obj", "set", "a", 0, 0)
    /\ \E e \in Created : stack[i].called = <<<<e, "run">>>>

\* C10: one trigger() call notifies no node twice: its snapshot holds each
\* node once, however many affected Dependency Sets contain the node.
C10_Deduplicated ==
  \A i \in TrigFrames :
    LET f == stack[i]
    IN /\ \A a, b \in 1..Len(f.effects) : f.effects[a] = f.effects[b] => a = b
       /\ \A a, b \in 1..Len(f.called) : f.called[a][1] = f.called[b][1] => a = b
       /\ Finished(f) => Range(f.effects) = CalledNodes(f) \cup f.skipped

\* a node subscribed to (obj, a) and to the iteration set was called once by
\* an addition, which affects both sets
C10_Witness ==
  \E i \in TrigFrames :
    /\ Finished(stack[i])
    /\ stack[i].call = Call("obj", "add", "a", 0, 0)
    /\ Len(stack[i].called) = 1
    /\ {<<"obj", "a">>, <<"obj", ITERATE_KEY>>} \subseteq Subscribed(stack[i].called[1][1])

\* the nodes subscribed to iteration sets and to nothing else
IterateOnly ==
  {e \in Created : /\ Subscribed(e) # {}
                   /\ \A s \in Subscribed(e) : s[2] = ITERATE_KEY}

\* the nodes in the Dependency Set of slot (t, k)
Subscribers(t, k) == Range(DepGet(targetMap, t, k))

\* C11: an addition of a non-index key to the plain object takes the
\* subscribers of the key and of the iteration set; an addition of an integer
\* index to the array takes the subscribers of the key and of 'length' and no
\* node subscribed to iteration sets only; a set, delete or clear takes no
\* node subscribed to iteration sets only.
C11_AdditionFanOut ==
  (stack # <<>> /\ Fresh(Top)) =>
    LET c == Top.call
        taken == Range(Top.effects)
    IN /\ (c.type = "add" /\ ~isArray(c.target) /\ ~isIntegerKey(c.key))
            => taken = Subscribers(c.target, c.key) \cup Subscribers(c.target, ITERATE_KEY)
       /\ (c.type = "add" /\ isArray(c.target) /\ isIntegerKey(c.key))
            => /\ taken = Subscribers(c.target, c.key) \cup Subscribers(c.target, "length")
               /\ taken \cap IterateOnly = {}
       /\ c.type \in {"set", "delete", "clear"} => taken \cap IterateOnly = {}

\* an addition of index MaxLen to the array has taken a subscriber of
\* 'length' while another node is subscribed to the array's iteration set only
C11_Witness ==
  /\ stack # <<>>
  /\ Fresh(Top)
  /\ Top.call = Call("arr", "add", NumStr(MaxLen), 0, 0)
  /\ Top.effects # <<>>
  /\ Range(Top.effects) = Subscribers("arr", "length")
  /\ \E e \in IterateOnly : <<"arr", ITERATE_KEY>> \in Subscribed(e)

\* this step calls the computation of node e
RunsFn(e) ==
  /\ Len(stack') = Len(stack) + 1
  /\ stack'[Len(stack')].kind = "fn"
  /\ stack'[Len(stack')].node = e

\* C12: a notification of a node registered with a scheduler calls the
\* scheduler and leaves the engine state alone; the computation of such a
\* node, once registered, is called only by an explicit call of its runner.
C12_SchedulerOverride ==
  [][\A e \in Created : effects[e].scheduler =>
        /\ Notifies(e) => /\ stack'[Len(stack')].kind = "sched"
                          /\ <<targetMap, activeEffect, shouldTrack, effects, reads>>' =
                               <<targetMap, activeEffect, shouldTrack, effects, reads>>
        /\ RunsFn(e) => (UserCode /\ budget'.ops = budget.ops - 1)]_vars

\* a node with a scheduler tracked (obj, a), and a set of (obj, a) has called
\* its scheduler, which is executing
C12_Witness ==
  /\ Len(stack) >= 2
  /\ Top.kind = "sched"
  /\ effects[Top.node].scheduler
  /\ stack[Len(stack) - 1].kind = "trig"
  /\ stack[Len(stack) - 1].call = Call("obj", "set", "a", 0, 0)
  /\ stack[Len(stack) - 1].called = <<<<Top.node, "scheduler">>>>
  /\ <<"obj", "a">> \in reads[Top.node]

\* C13: a track() made while tracking is paused or no node is current, and
\* a trigger() on a target without registry entry, change neither the
\* registry, nor a Dependency Set, nor a node, nor the tracking context, and
\* the trigger() calls nobody.
C13_GuardedNoOps ==
  [][/\ (~(shouldTrack /\ activeEffect # None) /\ \E s \in AllSlots : Track(s[1], s[2]))
        => <<targetMap, effects, activeEffect, shouldTrack, stack>>' =
             <<targetMap, effects, activeEffect, shouldTrack, stack>>
     /\ (\E c \in AllCalls : c.target \notin DOMAIN targetMap /\ Trigger(c))
        => <<targetMap, effects, activeEffect, shouldTrack, stack>>' =
             <<targetMap, effects, activeEffect, shouldTrack, stack>>]_vars

\* a computation paused tracking and then called track(): its node is
\* current, and the registry is still empty
C13_Witness ==
  /\ last = "track"
  /\ ~shouldTrack
  /\ activeEffect # None
  /\ stack # <<>>
  /\ Top.kind = "fn"
  /\ Top.node = activeEffect
  /\ targetMap = <<>>
  /\ effects[activeEffect].deps = <<>>

\* C14: effect(fn, { lazy: true }) calls no computation and subscribes
\* nothing; effect(fn) calls fn of the new node once before it returns; a
\* node whose fn was never called is in no Dependency Set, and the first call
\* of its fn after a lazy registration is made by the program's own code
\* (the runner or a call that is given the node), never by a trigger().
C14_LazyRegistration ==
  [][LET new == Len(effects) + 1
     IN /\ last' = "lazy effect"
             => /\ <<targetMap, activeEffect, shouldTrack, stack>>' =
                     <<targetMap, activeEffect, shouldTrack, stack>>
                /\ fnCalls' = fnCalls
                /\ effects'[new].deps = <<>>
        /\ last' = "effect"
             => /\ RunsFn(new)
                /\ fnCalls' = [fnCalls EXCEPT ![new] = 1]
        /\ \A e \in Created :
             /\ fnCalls[e] = 0 => (effects[e].deps = <<>> /\ Subscribed(e) = {})
             /\ (fnCalls[e] = 0 /\ fnCalls'[e] # 0)
                  => /\ RunsFn(e)
                     /\ \/ UserCode /\ last' \in {"run", "triggerEffect"}
                        \/ Top.kind = "trig" /\ Top.call = NoCall]_vars

\* the runner of a lazily registered node is called for the first time
C14_Witness ==
  /\ last = "run"
  /\ stack # <<>>
  /\ Top.kind = "fn"
  /\ Top.act
  /\ fnCalls[Top.node] = 1
  /\ activeEffect = Top.node

\* this step is the computation of a tracked run returning or throwing: the
\* finally block of run() begins
LeavesRun ==
  /\ stack # <<>>
  /\ Top.kind = "fn" /\ Top.act
  /\ stack' # stack
  /\ Len(stack') <= Len(stack)

\* C15: when the computation of a tracked run returns or throws, the current
\* node becomes the node that was current when that run() began, and the
\* parent link of the run's node is cleared.
C15_LifoRestoration ==
  [][LeavesRun => (activeEffect' = Top.prev /\ effects'[Top.node].parent = None)]_vars

\* C16: no Dependency Set contains a node whose active flag is false.
C16_NoInactiveSubscriber ==
  \A e \in Created : ~effects[e].active => Subscribed(e) = {}

\* C17: for every node, the Dependency Sets in its deps list are exactly the
\* Dependency Sets that contain it (the list may hold a set more than once).
C17_Bidirectional ==
  \A e \in Created : Range(effects[e].deps) = Subscribed(e)

\* a node that has been run again holds the same Dependency Set twice in its
\* deps list
C17_Witness ==
  \E e \in Created :
    /\ fnCalls[e] >= 2
    /\ Subscribed(e) # {}
    /\ Len(effects[e].deps) > Cardinality(Range(effects[e].deps))

\* C18: stop() of the current node sets its deferStop flag and changes
\* nothing else; when the computation of a tracked run returns or throws
\* while the flag of its node is set, the finally block deactivates the node:
\* it is in no Dependency Set, its deps list is empty, its onStop callback
\* (if any) is called, and then active is false and the flag is cleared.
C18_DeferredStop ==
  [][/\ \A e \in Created :
          (activeEffect = e /\ Stop(e))
            => /\ effects' = [effects EXCEPT ![e].deferStop = TRUE]
               /\ <<targetMap, activeEffect, shouldTrack, onStopCalls, stack>>' =
                    <<targetMap, activeEffect, shouldTrack, onStopCalls, stack>>
     /\ (LeavesRun /\ effects[Top.node].deferStop)
          => LET e == Top.node
             IN /\ effects'[e].deps = <<>>
                /\ \A s \in AllSlots \cup {OwnSlot} :
                      e \notin Range(DepGet(targetMap', s[1], s[2]))
                /\ IF effects[e].onStop
                   THEN /\ onStopCalls'[e] = onStopCalls[e] + 1
                        /\ stack'[Len(stack')].kind = "onStop"
                        /\ stack'[Len(stack')].node = e
                   ELSE ~effects'[e].active /\ ~effects'[e].deferStop
     /\ (stack # <<>> /\ Top.kind = "onStop" /\ Top.fin /\ ~exc
           /\ Len(stack') = Len(stack) - 1)
          => (~effects'[Top.node].active /\ ~effects'[Top.node].deferStop)]_vars

\* C19: run() of an inactive node calls its computation and leaves the
\* current node, shouldTrack and every node unchanged, and a track() made by
\* that computation adds no node to any Dependency Set or deps list.
C19_InactiveRunUntracked ==
  [][/\ \A e \in Created :
          (~effects[e].active /\ Run(e))
            => /\ RunsFn(e)
               /\ <<targetMap, activeEffect, shouldTrack, effects>>' =
                    <<targetMap, activeEffect, shouldTrack, effects>>
     /\ (stack # <<>> /\ Top.kind = "fn" /\ ~Top.act
           /\ \E s \in AllSlots : Track(s[1], s[2]))
          => (targetMap' = targetMap /\ effects' = effects)]_vars

\* C20: a pass works on the array made when it started: the array of a
\* triggerEffects() call never changes, whatever happens to the Dependency
\* Sets; the pass calls only nodes of the array and none that it has already
\* called, so it makes at most one call per node of the array.
C20_SnapshotPass ==
  [][/\ \A i \in PassFrames :
          /\ i <= Len(stack') => /\ stack'[i].kind = "trig"
                                 /\ stack'[i].effects = stack[i].effects
          /\ stack[i].i <= Len(stack[i].effects) + 1
          /\ Len(stack[i].called) <= Len(stack[i].effects)
     /\ \A e \in Created :
          PassCalls(e) => /\ Top.i <= Len(Top.effects)
                         /\ e = Top.effects[Top.i]
                         /\ e \notin CalledNodes(Top)]_vars

\* a pass over two nodes has finished: it ran the first node, whose re-run
\* removed it from the written slot's Dependency Set and added it again, and
\* then the second node, and then ended
C20_Witness ==
  \E i \in PassFrames :
    LET f == stack[i]
    IN /\ Finished(f)
       /\ Len(f.effects) = 2
       /\ f.called = <<<<f.effects[1], "run">>, <<f.effects[2], "run">>>>
       /\ <<f.call.target, f.call.key>> \in reads[f.effects[1]]
       /\ f.effects[1] \in Subscribers(f.call.target, f.call.key)
       /\ fnCalls[f.effects[1]] = 2

====
